---- MODULE Spec2Model ----
(***************************************************************************)
(* ChannelManager (lib/channel-manager.js): the local subscription         *)
(* registry over one redis subscribe connection, and the room membership   *)
(* coordinator over one redis publish/store connection.                    *)
(*                                                                         *)
(* Channel and room identifiers are ordinary strings; identifiers that     *)
(* collide with members of Object.prototype ("constructor", "__proto__")   *)
(* are outside the modelled input set.                                     *)
(***************************************************************************)
EXTENDS Naturals, Sequences, FiniteSets, TLC

\* ---------------------------------------------------------------- bounds
MaxId == 3          \* subscribe calls per manager (listener ids 0..MaxId-1)
MaxInbound == 1     \* messages the broker has sent that await dispatch
MaxQueue == 2       \* commands outstanding on the publish connection
MaxBroadcasts == 1  \* broadcast calls per behaviour

Channels == {"me", "you"}
Rooms == {"party-room", "lobby"}
Messages == {"hello", "test 1"}
\* what a listener callback does when it is invoked: it returns, it throws,
\* or it calls unsubscribe for listener id of the channel being dispatched
Returns == [does |-> "returns", id |-> 0]
Throws == [does |-> "throws", id |-> 0]
Unsubscribes(id) == [does |-> "unsubscribes", id |-> id]

Callbacks == {Returns, Throws}

\* callbacks that unsubscribe a listener while the message is dispatched
ReentrantCallbacks == {Returns} \cup {Unsubscribes(id) : id \in 0..(MaxId - 1)}

VARIABLES
    subscribers,   \* this.subscribers: channel -> (listener id -> callback)
    nextId,        \* this.nextId
    handles,       \* the unsubscribe closures subscribe has returned
    subConn,       \* per channel, the last command sent on this.subConn
    inbound,       \* messages the broker has sent on subConn, not yet emitted
    store,         \* redis keyspace: key -> set of members
    pubConn,       \* commands sent on this.pubConn that redis has not answered
    broadcasts,    \* broadcast calls: their promise and member publishes
    lastDone,      \* the (room, channel) whose last successful store command was enter
    lastOp         \* the operation the last step performed, and what it did

vars == <<subscribers, nextId, handles, subConn, inbound, store, pubConn,
          broadcasts, lastDone, lastOp>>

registryVars == <<subscribers, nextId, handles, subConn>>
roomVars == <<store, pubConn, broadcasts, lastDone>>

\* ------------------------------------------------------- object helpers
\* obj[k] = v on a JavaScript object
Put(obj, k, v) == [x \in (DOMAIN obj) \cup {k} |-> IF x = k THEN v ELSE obj[x]]

\* delete obj[k]; deleting an absent key changes nothing
Del(obj, k) == [x \in (DOMAIN obj) \ {k} |-> obj[x]]

\* {}
EmptyObj == [x \in {} |-> Returns]

Min(S) == CHOOSE x \in S : \A y \in S : x <= y

\* the keys of an object with integer keys, in the order a for-in visits them
RECURSIVE KeysInOrder(_)
KeysInOrder(S) == IF S = {} THEN <<>> ELSE <<Min(S)>> \o KeysInOrder(S \ {Min(S)})

Cmd(name, channel) == [cmd |-> name, channel |-> channel]

\* ------------------------------------------------------------ subscribe
\* a counter that is not advanced
nextIdKept(id) == id

\* var id = this.nextId++: the counter after the allocation of id
nextIdAfter(id) == id + 1

\* the registry after subscribe(channel, fn) has stored fn under id
SubscribeRegistry(regs, channel, id, fn) ==
    LET subs == IF channel \in DOMAIN regs THEN regs[channel] ELSE EmptyObj
    IN  Put(regs, channel, Put(subs, id, fn))

\* subscribe that registers with redis on every call
SubscribeAlwaysCmds(regs, channel) == <<Cmd("subscribe", channel)>>

\* the commands subscribe(channel, fn) sends on subConn
SubscribeCmds(regs, channel) ==
    IF channel \in DOMAIN regs THEN <<>> ELSE <<Cmd("subscribe", channel)>>

\* -------------------------------------------------------- unsubscribe
\* unsubscribe without the deletion of the emptied channel entry
UnsubscribeKeepsEntry(regs, channel, listenerId) ==
    IF channel \in DOMAIN regs
    THEN Put(regs, channel, Del(regs[channel], listenerId))
    ELSE regs

\* unsubscribe that drops the channel entry with all its listeners
UnsubscribeDropsChannel(regs, channel, listenerId) ==
    Del(regs, channel)

\* unsubscribe that removes a listener only together with its channel entry
UnsubscribeKeepsListener(regs, channel, listenerId) ==
    IF channel \in DOMAIN regs /\ DOMAIN regs[channel] \subseteq {listenerId}
    THEN Del(regs, channel)
    ELSE regs

\* the registry after unsubscribe(channel, listenerId)
UnsubscribeRegistry(regs, channel, listenerId) ==
    IF channel \in DOMAIN regs
    THEN LET subs == Del(regs[channel], listenerId)
         IN  IF Cardinality(DOMAIN subs) = 0
             THEN Del(regs, channel)
             ELSE Put(regs, channel, subs)
    ELSE regs

\* the commands unsubscribe(channel, listenerId) sends on subConn
UnsubscribeCmds(regs, channel, listenerId) ==
    IF channel \in DOMAIN regs
       /\ Cardinality(DOMAIN Del(regs[channel], listenerId)) = 0
    THEN <<Cmd("unsubscribe", channel)>>
    ELSE <<>>

\* subConn after the commands cmds were sent on it, in order
RECURSIVE SendAll(_, _)
SendAll(conn, cmds) ==
    IF cmds = <<>> THEN conn
    ELSE SendAll([conn EXCEPT ![Head(cmds).channel] = Head(cmds).cmd], Tail(cmds))

\* the channels redis delivers to subConn
Subscribed(conn) == {c \in Channels : conn[c] = "subscribe"}

\* ------------------------------------------------------------- dispatch
\* _.forEach(subs, function (subscriber) { subscriber(message) }) over the
\* keys ids that are left of the snapshot taken when the iteration began.
\* st holds the registry, the commands sent on subConn, the invocations made
\* and whether an exception ended the iteration. The object iterated is the
\* channel's entry as it is now: a key deleted since reads as undefined, and
\* calling undefined is a TypeError. A callback that throws ends the iteration.
RECURSIVE ForEach(_, _, _, _)
ForEach(st, channel, ids, message) ==
    IF ids = <<>> THEN st
    ELSE LET id == Head(ids)
             subs == IF channel \in DOMAIN st.regs THEN st.regs[channel] ELSE EmptyObj
         IN  IF id \notin DOMAIN subs
             THEN [st EXCEPT !.threw = TRUE]
             ELSE LET fn == subs[id]
                      called == [st EXCEPT !.calls =
                                    Append(@, [id |-> id, message |-> message])]
                  IN  CASE fn.does = "throws" -> [called EXCEPT !.threw = TRUE]
                        [] fn.does = "unsubscribes" ->
                             ForEach([called EXCEPT
                                        !.regs = UnsubscribeRegistry(@, channel, fn.id),
                                        !.cmds = @ \o UnsubscribeCmds(st.regs, channel, fn.id)],
                                     channel, Tail(ids), message)
                        [] OTHER -> ForEach(called, channel, Tail(ids), message)

\* the subConn 'message' handler for (channel, message): the registry it
\* leaves, the commands it sent, the invocations it made, whether it threw
OnMessageRun(regs, channel, message) ==
    LET st == [regs |-> regs, cmds |-> <<>>, calls |-> <<>>, threw |-> FALSE]
    IN  IF channel \in DOMAIN regs
        THEN ForEach(st, channel, KeysInOrder(DOMAIN regs[channel]), message)
        ELSE st

\* the invocations the 'message' handler makes for (channel, message)
OnMessageCalls(regs, channel, message) == OnMessageRun(regs, channel, message).calls

\* the 'message' handler without its check for listeners: iterating an
\* absent entry is a TypeError
OnMessageThrowsUnchecked(regs, channel, message) ==
    \/ channel \notin DOMAIN regs
    \/ OnMessageRun(regs, channel, message).threw

\* whether the 'message' handler lets an exception escape
OnMessageThrows(regs, channel, message) == OnMessageRun(regs, channel, message).threw

\* redis PUBLISH as seen by subConn: the message is sent to it when it is
\* subscribed to the channel
BrokerDeliver(conn, queue, channel, message) ==
    IF channel \in Subscribed(conn)
    THEN Append(queue, [channel |-> channel, message |-> message])
    ELSE queue

\* ------------------------------------------------------- redis commands
\* a key that leaves the room out
subscribersKeyNoRoom(room) == <<"room:", "", ":channels">>

\* util.format('room:%s:channels', room)
subscribersKey(room) == <<"room:", room, ":channels">>

\* a command sent on pubConn; room and bid are the caller's bookkeeping: the
\* room the call named and the broadcast (0: none) whose promise awaits it
Command(name, room, key, arg, message, bid) ==
    [cmd |-> name, room |-> room, key |-> key, arg |-> arg,
     message |-> message, bid |-> bid]

\* SMEMBERS key: a key that does not exist is the empty set
SMembers(st, key) == IF key \in DOMAIN st THEN st[key] ELSE {}

\* SADD key member
SAdd(st, key, member) == Put(st, key, SMembers(st, key) \cup {member})

\* SREM key member: redis removes a set that became empty
SRem(st, key, member) ==
    IF SMembers(st, key) \ {member} = {}
    THEN Del(st, key)
    ELSE Put(st, key, SMembers(st, key) \ {member})

\* the keyspace after redis has executed command c
RedisApply(st, c) ==
    CASE c.cmd = "sadd" -> SAdd(st, c.key, c.arg)
      [] c.cmd = "srem" -> SRem(st, c.key, c.arg)
      [] c.cmd = "del" -> Del(st, c.key)
      [] OTHER -> st

\* the arrays SMEMBERS may reply for the set S: its members in any order
Orders(S) ==
    {seq \in [1..Cardinality(S) -> S] : \A c \in S : \E i \in DOMAIN seq : seq[i] = c}

\* --------------------------------------------------------------- rooms
\* enter(room, channel)
EnterCmd(room, channel) ==
    Command("sadd", room, subscribersKey(room), channel, "", 0)

\* leave(room, channel)
LeaveCmd(room, channel) ==
    Command("srem", room, subscribersKey(room), channel, "", 0)

\* members(room); bid names the broadcast that made the call
MembersCmd(room, bid) ==
    Command("smembers", room, subscribersKey(room), "", "", bid)

\* close that names the room itself as the key
CloseCmdRawKey(room) ==
    Command("del", room, <<room>>, "", "", 0)

\* close(room)
CloseCmd(room) ==
    Command("del", room, subscribersKey(room), "", "", 0)

\* publish(channel, message); bid names the broadcast that made the call
PublishCmd(channel, message, bid) ==
    Command("publish", "", <<>>, channel, message, bid)

\* a broadcast that publishes to the first member only
BroadcastPublishesFirst(members, message, bid) ==
    IF members = <<>> THEN <<>> ELSE <<PublishCmd(Head(members), message, bid)>>

\* subscribers.map(function (channel) { return self.publish(channel, message) })
RECURSIVE BroadcastPublishes(_, _, _)
BroadcastPublishes(members, message, bid) ==
    IF members = <<>> THEN <<>>
    ELSE <<PublishCmd(Head(members), message, bid)>>
         \o BroadcastPublishes(Tail(members), message, bid)

\* a join that is fulfilled as soon as no publish is pending and one succeeded
QAllIgnoresRejection(results) ==
    IF \E c \in DOMAIN results : results[c] = "pending" THEN "pending"
    ELSE IF \E c \in DOMAIN results : results[c] = "fulfilled" THEN "fulfilled"
    ELSE IF DOMAIN results = {} THEN "fulfilled"
    ELSE "rejected"

\* a join that waits for every publish to settle (q.allSettled, then all)
QAllWaits(results) ==
    IF \E c \in DOMAIN results : results[c] = "pending" THEN "pending"
    ELSE IF \E c \in DOMAIN results : results[c] = "rejected" THEN "rejected"
    ELSE "fulfilled"

\* a join that stays pending when it was given no promise
QAllNeedsOne(results) ==
    IF \E c \in DOMAIN results : results[c] = "rejected" THEN "rejected"
    ELSE IF DOMAIN results # {} /\ \A c \in DOMAIN results : results[c] = "fulfilled"
         THEN "fulfilled"
    ELSE "pending"

\* q.all over the member publishes: rejected with the first rejection,
\* fulfilled once every promise is fulfilled
QAll(results) ==
    IF \E c \in DOMAIN results : results[c] = "rejected" THEN "rejected"
    ELSE IF \A c \in DOMAIN results : results[c] = "fulfilled" THEN "fulfilled"
    ELSE "pending"

\* a broadcast promise that joins the publishes whatever the lookup did
BroadcastOutcomeIgnoresLookup(lookup, results) ==
    IF lookup = "pending" THEN "pending" ELSE QAll(results)

\* the promise broadcast returns, given the lookup and the member publishes
BroadcastOutcome(lookup, results) ==
    CASE lookup = "pending" -> "pending"
      [] lookup = "rejected" -> "rejected"
      [] OTHER -> QAll(results)

\* the (room, channel) pairs whose last successful store command was an
\* enter, after command c succeeded; c.room and c.arg are the call's arguments
Done(done, c) ==
    CASE c.cmd = "sadd" -> done \cup {<<c.room, c.arg>>}
      [] c.cmd = "srem" -> done \ {<<c.room, c.arg>>}
      [] c.cmd = "del" -> {p \in done : p[1] # c.room}
      [] OTHER -> done

\* ---------------------------------------------------------------- Init
\* new ChannelManager(): an empty registry, two fresh connections; the
\* store is the redis keyspace, here with no room in it
Init ==
    /\ subscribers = EmptyObj
    /\ nextId = 0
    /\ handles = {}
    /\ subConn = [c \in Channels |-> "none"]
    /\ inbound = <<>>
    /\ store = EmptyObj
    /\ pubConn = <<>>
    /\ broadcasts = <<>>
    /\ lastDone = {}
    /\ lastOp = [op |-> "new"]

\* ------------------------------------------------------ registry actions
\* ChannelManager.prototype.subscribe(channel, fn)
subscribe(channel, fn) ==
    /\ nextId < MaxId
    /\ subscribers' = SubscribeRegistry(subscribers, channel, nextId, fn)
    /\ subConn' = SendAll(subConn, SubscribeCmds(subscribers, channel))
    /\ nextId' = nextIdAfter(nextId)
    /\ handles' = handles \cup {[channel |-> channel, id |-> nextId]}
    /\ lastOp' = [op |-> "subscribe", channel |-> channel, id |-> nextId,
                  cmds |-> SubscribeCmds(subscribers, channel)]
    /\ UNCHANGED <<inbound, roomVars>>

\* an unsubscribe that also takes the channel out of the room when its last
\* listener goes
unsubscribeLeavesRoom(h) ==
    /\ subscribers' = UnsubscribeRegistry(subscribers, h.channel, h.id)
    /\ subConn' = SendAll(subConn, UnsubscribeCmds(subscribers, h.channel, h.id))
    /\ pubConn' = IF UnsubscribeCmds(subscribers, h.channel, h.id) # <<>>
                  THEN Append(pubConn, Command("srem", "party-room",
                                  subscribersKey("party-room"), h.channel, "", 0))
                  ELSE pubConn
    /\ lastOp' = [op |-> "unsubscribe", channel |-> h.channel, id |-> h.id,
                  removed |-> subscribers' # subscribers,
                  cmds |-> UnsubscribeCmds(subscribers, h.channel, h.id)]
    /\ UNCHANGED <<nextId, handles, inbound, store, broadcasts, lastDone>>

\* the closure subscribe returned: unsubscribe.bind(this, channel, id)
unsubscribe(h) ==
    /\ subscribers' = UnsubscribeRegistry(subscribers, h.channel, h.id)
    /\ subConn' = SendAll(subConn, UnsubscribeCmds(subscribers, h.channel, h.id))
    /\ lastOp' = [op |-> "unsubscribe", channel |-> h.channel, id |-> h.id,
                  removed |-> subscribers' # subscribers,
                  cmds |-> UnsubscribeCmds(subscribers, h.channel, h.id)]
    /\ UNCHANGED <<nextId, handles, inbound, roomVars>>

\* subConn emits 'message' for the next message the broker sent
OnMessage ==
    /\ inbound # <<>>
    /\ LET m == Head(inbound)
           run == OnMessageRun(subscribers, m.channel, m.message)
       IN  /\ subscribers' = run.regs
           /\ subConn' = SendAll(subConn, run.cmds)
           /\ lastOp' = [op |-> "message", channel |-> m.channel,
                         message |-> m.message,
                         calls |-> OnMessageCalls(subscribers, m.channel, m.message),
                         threw |-> OnMessageThrows(subscribers, m.channel, m.message)]
    /\ inbound' = Tail(inbound)
    /\ UNCHANGED <<nextId, handles, roomVars>>

\* another redis client publishes (test: client.publish('me', 'test 1'))
ClientPublish(channel, message) ==
    /\ Len(inbound) < MaxInbound
    /\ channel \in Subscribed(subConn)
    /\ inbound' = BrokerDeliver(subConn, inbound, channel, message)
    /\ lastOp' = [op |-> "clientPublish", channel |-> channel, message |-> message]
    /\ UNCHANGED <<registryVars, roomVars>>

\* a user of the manager removes a registry entry itself
\* (test: delete channelManager.subscribers.me)
DeleteEntry(channel) ==
    /\ channel \in DOMAIN subscribers
    /\ subscribers' = Del(subscribers, channel)
    /\ lastOp' = [op |-> "delete", channel |-> channel]
    /\ UNCHANGED <<nextId, handles, subConn, inbound, roomVars>>

\* ---------------------------------------------------------- room actions
\* q.ninvoke(this.pubConn, ...): the command is sent, its promise pending
Send(name, c) ==
    /\ Len(pubConn) < MaxQueue
    /\ pubConn' = Append(pubConn, c)
    /\ lastOp' = [op |-> name, command |-> c]
    /\ UNCHANGED <<registryVars, inbound, store, broadcasts, lastDone>>

enter(room, channel) == Send("enter", EnterCmd(room, channel))

leave(room, channel) == Send("leave", LeaveCmd(room, channel))

members(room) == Send("members", MembersCmd(room, 0))

close(room) == Send("close", CloseCmd(room))

\* a publish that forwards only for channels with a local registry entry
publishConsultsRegistry(channel, message) ==
    IF channel \in DOMAIN subscribers
    THEN Send("publish", PublishCmd(channel, message, 0))
    ELSE /\ lastOp' = [op |-> "publish", command |-> PublishCmd(channel, message, 0)]
         /\ UNCHANGED <<registryVars, inbound, roomVars>>

\* ChannelManager.prototype.publish(channel, message)
publish(channel, message) == Send("publish", PublishCmd(channel, message, 0))

\* ChannelManager.prototype.broadcast(room, message): the members lookup is
\* sent; the publishes follow its reply
broadcast(room, message) ==
    /\ Len(broadcasts) < MaxBroadcasts
    /\ Len(pubConn) < MaxQueue
    /\ LET bid == Len(broadcasts) + 1
       IN  /\ pubConn' = Append(pubConn, MembersCmd(room, bid))
           /\ broadcasts' = Append(broadcasts,
                  [room |-> room, message |-> message, lookup |-> "pending",
                   members |-> <<>>, results |-> EmptyObj, outcome |-> "pending"])
           /\ lastOp' = [op |-> "broadcast", command |-> MembersCmd(room, bid)]
    /\ UNCHANGED <<registryVars, inbound, store, lastDone>>

\* redis answers a store command that no broadcast awaits
StoreReply(ok) ==
    /\ pubConn # <<>>
    /\ LET c == Head(pubConn)
       IN  /\ c.cmd \in {"sadd", "srem", "del", "smembers"}
           /\ c.bid = 0
           /\ store' = IF ok THEN RedisApply(store, c) ELSE store
           /\ lastDone' = IF ok THEN Done(lastDone, c) ELSE lastDone
           /\ \E reply \in Orders(SMembers(store, c.key)) :
                lastOp' = [op |-> "reply", command |-> c, ok |-> ok,
                           members |-> IF ok /\ c.cmd = "smembers"
                                       THEN reply ELSE <<>>,
                           sent |-> <<>>]
    /\ pubConn' = Tail(pubConn)
    /\ UNCHANGED <<registryVars, inbound, broadcasts>>

\* redis answers the members lookup of a broadcast; on success the then
\* callback sends one publish per member and joins them with q.all
LookupReply(ok) ==
    /\ pubConn # <<>>
    /\ LET c == Head(pubConn)
       IN  /\ c.cmd = "smembers"
           /\ c.bid > 0
           /\ \E reply \in Orders(SMembers(store, c.key)) :
                LET b == broadcasts[c.bid]
                    sent == IF ok THEN BroadcastPublishes(reply, b.message, c.bid)
                            ELSE <<>>
                    lookup == IF ok THEN "fulfilled" ELSE "rejected"
                    results == [x \in {sent[i].arg : i \in DOMAIN sent} |-> "pending"]
                IN  /\ pubConn' = Tail(pubConn) \o sent
                    /\ broadcasts' = [broadcasts EXCEPT ![c.bid] =
                           [b EXCEPT !.lookup = lookup,
                                     !.members = IF ok THEN reply ELSE <<>>,
                                     !.results = results,
                                     !.outcome = BroadcastOutcome(lookup, results)]]
                    /\ lastOp' = [op |-> "reply", command |-> c, ok |-> ok,
                                  members |-> IF ok THEN reply ELSE <<>>,
                                  sent |-> sent]
    /\ UNCHANGED <<registryVars, inbound, store, lastDone>>

\* redis answers a publish: on success the message went to the subscribed
\* connections; the promise settles, and with it the q.all that joins it
PublishReply(ok) ==
    /\ pubConn # <<>>
    /\ LET c == Head(pubConn)
       IN  /\ c.cmd = "publish"
           /\ ok /\ c.arg \in Subscribed(subConn) => Len(inbound) < MaxInbound
           /\ inbound' = IF ok THEN BrokerDeliver(subConn, inbound, c.arg, c.message)
                         ELSE inbound
           /\ broadcasts' =
                IF c.bid = 0 THEN broadcasts
                ELSE LET b == broadcasts[c.bid]
                         results == [b.results EXCEPT ![c.arg] =
                                        IF ok THEN "fulfilled" ELSE "rejected"]
                     IN  [broadcasts EXCEPT ![c.bid] =
                            [b EXCEPT !.results = results,
                                      !.outcome = BroadcastOutcome(b.lookup, results)]]
           /\ lastOp' = [op |-> "reply", command |-> c, ok |-> ok,
                         members |-> <<>>, sent |-> <<>>]
    /\ pubConn' = Tail(pubConn)
    /\ UNCHANGED <<registryVars, store, lastDone>>

\* ------------------------------------------------------- specifications
RegistryNext ==
    \/ \E channel \in Channels, fn \in Callbacks : subscribe(channel, fn)
    \/ \E h \in handles : unsubscribe(h)
    \/ OnMessage
    \/ \E channel \in Channels, message \in Messages : ClientPublish(channel, message)

StoreNext ==
    \/ \E room \in Rooms, channel \in Channels : enter(room, channel)
    \/ \E room \in Rooms, channel \in Channels : leave(room, channel)
    \/ \E room \in Rooms : members(room)
    \/ \E room \in Rooms : close(room)
    \/ \E ok \in BOOLEAN : StoreReply(ok)

BroadcastNext ==
    \/ \E room \in Rooms, channel \in Channels : enter(room, channel)
    \/ \E room \in Rooms, channel \in Channels : leave(room, channel)
    \/ \E room \in Rooms : close(room)
    \/ \E room \in Rooms, message \in Messages : broadcast(room, message)
    \/ \E ok \in BOOLEAN : StoreReply(ok)
    \/ \E ok \in BOOLEAN : LookupReply(ok)
    \/ \E ok \in BOOLEAN : PublishReply(ok)

RoomNext ==
    \/ StoreNext
    \/ BroadcastNext
    \/ \E channel \in Channels, message \in Messages : publish(channel, message)

\* the registry driven by subscribe, the returned handles and the broker
SpecRegistry == Init /\ [][RegistryNext]_vars

\* the registry when its users also remove entries themselves
SpecDelete ==
    Init /\ [][RegistryNext \/ \E channel \in Channels : DeleteEntry(channel)]_vars

\* room membership: enter, leave, members, close and redis' answers
SpecStore == Init /\ [][StoreNext]_vars

\* broadcast among the operations that change room membership
SpecBroadcast == Init /\ [][BroadcastNext]_vars

\* the registry together with publish and redis' answers to it
PublishNext ==
    \/ RegistryNext
    \/ \E channel \in Channels, message \in Messages : publish(channel, message)
    \/ \E ok \in BOOLEAN : PublishReply(ok)

SpecPublish == Init /\ [][PublishNext]_vars

\* the room and the channel of the broadcast scenario of the tests
PartyRoom == "party-room"

PartyChannel == "me"

\* listeners subscribe, channels enter the room, the room is broadcast to;
\* redis answers every command it was sent and subConn emits every message it
\* was sent
LiveNext ==
    \/ \E channel \in Channels, fn \in Callbacks : subscribe(channel, fn)
    \/ \E channel \in Channels : enter(PartyRoom, channel)
    \/ \E message \in Messages : broadcast(PartyRoom, message)
    \/ \E ok \in BOOLEAN : StoreReply(ok)
    \/ \E ok \in BOOLEAN : LookupReply(ok)
    \/ \E ok \in BOOLEAN : PublishReply(ok)
    \/ OnMessage

SpecLive ==
    /\ Init /\ [][LiveNext]_vars
    /\ WF_vars(\E ok \in BOOLEAN : StoreReply(ok))
    /\ WF_vars(\E ok \in BOOLEAN : LookupReply(ok))
    /\ WF_vars(\E ok \in BOOLEAN : PublishReply(ok))
    /\ WF_vars(OnMessage)

\* the registry and the room side by side: listeners of the channel come and
\* go while the room is entered, left, closed, read and broadcast to
FrameNext ==
    \/ \E fn \in Callbacks : subscribe(PartyChannel, fn)
    \/ \E h \in handles : unsubscribe(h)
    \/ OnMessage
    \/ \E channel \in Channels : enter(PartyRoom, channel)
    \/ \E channel \in Channels : leave(PartyRoom, channel)
    \/ members(PartyRoom)
    \/ close(PartyRoom)
    \/ \E message \in Messages : broadcast(PartyRoom, message)
    \/ \E ok \in BOOLEAN : StoreReply(ok)
    \/ \E ok \in BOOLEAN : LookupReply(ok)
    \/ \E ok \in BOOLEAN : PublishReply(ok)

SpecFrame == Init /\ [][FrameNext]_vars

\* the registry with listeners that invoke unsubscribe handles while they run
ReentrantNext ==
    \/ \E channel \in Channels, fn \in ReentrantCallbacks : subscribe(channel, fn)
    \/ \E h \in handles : unsubscribe(h)
    \/ OnMessage
    \/ \E channel \in Channels, message \in Messages : ClientPublish(channel, message)

SpecReentrant == Init /\ [][ReentrantNext]_vars

Next == RegistryNext \/ RoomNext

Spec == Init /\ [][Next]_vars

\* =================================================================
\* Properties of the local subscription registry
\* =================================================================
\* the listener ids registered on channel c
Listeners(c) == IF c \in DOMAIN subscribers THEN DOMAIN subscribers[c] ELSE {}

\* how often listener id was invoked with message in the sequence calls
Invocations(calls, id, message) ==
    Cardinality({i \in DOMAIN calls : calls[i].id = id /\ calls[i].message = message})

\* C1: under subscribe calls and handle invocations, a channel is a key of
\* subscribers iff it has at least one listener and the last command sent
\* for it on the subscribe connection was a subscribe.
C1_KeyIffListenerAndSubscribed ==
    \A c \in Channels :
        (c \in DOMAIN subscribers) <=> (Listeners(c) # {} /\ subConn[c] = "subscribe")

\* C1 witness: one channel was subscribed and fully unsubscribed while
\* another holds two listeners.
C1_Witness ==
    \E c, d \in Channels :
        /\ c \notin DOMAIN subscribers /\ subConn[c] = "unsubscribe"
        /\ Cardinality(Listeners(d)) >= 2

\* C2: subscribe sends a broker subscribe exactly when the channel had no
\* listeners; unsubscribe sends a broker unsubscribe exactly when it removes
\* the last listener; every other subscribe or handle invocation, and every
\* other step, sends nothing on the subscribe connection.
C2_BrokerCommandsExactlyAtFirstAndLast ==
    [][ LET o == lastOp'
        IN  /\ o.op = "subscribe" =>
                o.cmds = IF Listeners(o.channel) = {}
                         THEN <<Cmd("subscribe", o.channel)>> ELSE <<>>
            /\ o.op = "unsubscribe" =>
                o.cmds = IF Listeners(o.channel) = {o.id}
                         THEN <<Cmd("unsubscribe", o.channel)>> ELSE <<>>
            /\ o.op \in {"subscribe", "unsubscribe"} =>
                subConn' = SendAll(subConn, o.cmds)
            /\ o.op \notin {"subscribe", "unsubscribe"} => subConn' = subConn
      ]_vars

\* C2 witness: a handle invoked again after its channel was fully
\* unsubscribed and re-subscribed by another listener sent no command.
C2_Witness ==
    /\ lastOp.op = "unsubscribe" /\ ~lastOp.removed /\ lastOp.cmds = <<>>
    /\ subConn[lastOp.channel] = "subscribe"
    /\ \A id \in Listeners(lastOp.channel) : id > lastOp.id

\* C3: a handle removes exactly its own listener; invoked when that listener
\* is no longer registered (again, after the entry was removed, after the
\* channel was re-subscribed) it completes and changes nothing.
C3_HandleRemovesExactlyItsListener ==
    [][ LET o == lastOp'
        IN  o.op = "unsubscribe" =>
              /\ \A d \in Channels :
                    /\ Listeners(d)' = IF d = o.channel
                                       THEN Listeners(d) \ {o.id} ELSE Listeners(d)
                    /\ \A i \in Listeners(d)' : subscribers'[d][i] = subscribers[d][i]
              /\ o.removed <=> o.id \in Listeners(o.channel)
              /\ ~o.removed => /\ subscribers' = subscribers
                               /\ subConn' = subConn
                               /\ nextId' = nextId
                               /\ handles' = handles
      ]_vars

\* C3 witness: a handle was invoked after its entry was removed and the
\* channel re-subscribed by a later listener; that listener is still there.
C3_Witness ==
    /\ lastOp.op = "unsubscribe" /\ ~lastOp.removed
    /\ Listeners(lastOp.channel) # {}
    /\ \A id \in Listeners(lastOp.channel) : id > lastOp.id

\* C4: a message delivered on channel c invokes every listener registered on
\* c exactly once with the message's payload and invokes no other listener.
C4_EveryListenerInvokedOnce ==
    lastOp.op = "message" =>
        /\ \A id \in Listeners(lastOp.channel) :
              Invocations(lastOp.calls, id, lastOp.message) = 1
        /\ \A i \in DOMAIN lastOp.calls :
              /\ lastOp.calls[i].id \in Listeners(lastOp.channel)
              /\ lastOp.calls[i].message = lastOp.message

\* C5: a message for a channel with no entry in subscribers raises no error,
\* invokes no callback and leaves the registry unchanged.
C5_AbsentChannelDispatchIsSilent ==
    [][ LET o == lastOp'
        IN  o.op = "message" /\ o.channel \notin DOMAIN subscribers =>
              /\ o.calls = <<>>
              /\ ~o.threw
              /\ subscribers' = subscribers
              /\ nextId' = nextId
              /\ subConn' = subConn
      ]_vars

\* C5 witness: a message was dispatched for a channel whose entry was
\* removed while the broker subscription is still active.
C5_Witness ==
    /\ lastOp.op = "message"
    /\ lastOp.channel \notin DOMAIN subscribers
    /\ subConn[lastOp.channel] = "subscribe"
    /\ lastOp.calls = <<>> /\ ~lastOp.threw

\* C6: when a listener throws during dispatch, every other listener of the
\* channel is still invoked with the message and the error does not leave
\* the 'message' handler.
C6_ThrowingListenerIsIsolated ==
    lastOp.op = "message" =>
        /\ ~lastOp.threw
        /\ \A id \in Listeners(lastOp.channel) :
              Invocations(lastOp.calls, id, lastOp.message) = 1

\* =================================================================
\* Properties of the room membership coordinator
\* =================================================================
Range(seq) == {seq[i] : i \in DOMAIN seq}

\* what members(room) reads from the keyspace st
MembersIn(st, room) == SMembers(st, subscribersKey(room))

\* what members(room) reads from the store
MembersOf(room) == MembersIn(store, room)

\* the publishes of broadcast bid for channel c that redis has not answered
QueuedPublishes(queue, bid, c) ==
    {i \in DOMAIN queue :
        queue[i].cmd = "publish" /\ queue[i].bid = bid /\ queue[i].arg = c}

\* the step is redis' successful answer to the members lookup of a broadcast
IsLookupReply(o) ==
    o.op = "reply" /\ o.command.cmd = "smembers" /\ o.command.bid > 0 /\ o.ok

\* C7: a broadcast succeeds iff its members lookup succeeded and every member
\* publish succeeded; a failed member publish makes it a failure.
C7_BroadcastSucceedsIffAllSucceed ==
    \A b \in DOMAIN broadcasts :
        LET B == broadcasts[b]
        IN  /\ B.outcome = "fulfilled" <=>
                  /\ B.lookup = "fulfilled"
                  /\ \A c \in Range(B.members) :
                        c \in DOMAIN B.results /\ B.results[c] = "fulfilled"
            /\ (\E c \in DOMAIN B.results : B.results[c] = "rejected") =>
                  B.outcome = "rejected"
            /\ B.lookup = "rejected" => B.outcome = "rejected"

\* C7 witness: of two member publishes one succeeded and one failed, and the
\* broadcast failed.
C7_Witness ==
    \E b \in DOMAIN broadcasts :
        LET B == broadcasts[b]
        IN  /\ B.outcome = "rejected"
            /\ \E c, d \in DOMAIN B.results :
                  B.results[c] = "fulfilled" /\ B.results[d] = "rejected"

\* C8: the reply to a broadcast's lookup sends exactly one publish to each
\* member it returned and none to any other channel; each of them stays
\* outstanding until redis answers it, whatever happened to the others and to
\* the room since; no later step sends a publish for the broadcast again, and
\* a publish that succeeded stays succeeded.
C8_OnePublishPerMemberOfLookup ==
    [][ LET o == lastOp'
        IN  /\ IsLookupReply(o) =>
                  /\ Range(o.members) = MembersOf(o.command.room)
                  /\ pubConn' = Tail(pubConn) \o o.sent
                  /\ \A i \in DOMAIN o.sent :
                        /\ o.sent[i].cmd = "publish"
                        /\ o.sent[i].bid = o.command.bid
                        /\ o.sent[i].message = broadcasts[o.command.bid].message
                  /\ \A c \in Channels :
                        Cardinality(QueuedPublishes(o.sent, o.command.bid, c))
                            = IF c \in Range(o.members) THEN 1 ELSE 0
            /\ ~IsLookupReply(o) =>
                  \A b \in DOMAIN broadcasts, c \in Channels :
                        Cardinality(QueuedPublishes(pubConn', b, c))
                            <= Cardinality(QueuedPublishes(pubConn, b, c))
            /\ \A b \in DOMAIN broadcasts' :
                  LET B == broadcasts'[b]
                  IN  \A c \in Channels :
                        Cardinality(QueuedPublishes(pubConn', b, c))
                            = IF /\ c \in Range(B.members)
                                 /\ c \in DOMAIN B.results
                                 /\ B.results[c] = "pending"
                              THEN 1 ELSE 0
            /\ \A b \in DOMAIN broadcasts :
                  \A c \in DOMAIN broadcasts[b].results :
                        broadcasts[b].results[c] = "fulfilled" =>
                            /\ c \in DOMAIN broadcasts'[b].results
                            /\ broadcasts'[b].results[c] = "fulfilled"
      ]_vars

\* C8 witness: one member publish failed, the other was still sent and
\* succeeded, and the room's membership has changed since the lookup.
C8_Witness ==
    \E b \in DOMAIN broadcasts :
        LET B == broadcasts[b]
        IN  /\ Range(B.members) # MembersOf(B.room)
            /\ \E c, d \in DOMAIN B.results :
                  B.results[c] = "rejected" /\ B.results[d] = "fulfilled"

\* C9 as stated: a broadcast has completed, with success or failure, only
\* when every one of its member publishes has settled.
C9_CompletesOnlyWhenAllSettled ==
    \A b \in DOMAIN broadcasts :
        broadcasts[b].outcome # "pending" =>
            \A c \in DOMAIN broadcasts[b].results :
                broadcasts[b].results[c] # "pending"

\* C9 amended: a broadcast is fulfilled only when every member publish has
\* settled (all of them fulfilled); it is rejected in the very step its
\* lookup or its first member publish is rejected, whether or not other
\* member publishes are still pending.
C9_FulfilledWhenAllSettledRejectedAtFirstFailure ==
    [][ \A b \in DOMAIN broadcasts' :
            LET B == broadcasts'[b]
                was == IF b \in DOMAIN broadcasts
                       THEN broadcasts[b].outcome ELSE "pending"
                failed == B.lookup = "rejected"
                          \/ \E c \in DOMAIN B.results : B.results[c] = "rejected"
            IN  /\ B.outcome = "fulfilled" =>
                      \A c \in DOMAIN B.results : B.results[c] = "fulfilled"
                /\ B.outcome = "rejected" <=> failed
                /\ was = "pending" /\ B.outcome = "rejected" =>
                      /\ lastOp'.op = "reply" /\ ~lastOp'.ok
                      /\ lastOp'.command.bid = b
                /\ was # "pending" => B.outcome = was
      ]_vars

\* C9 witness: a broadcast is rejected while one of its member publishes is
\* still pending.
C9_Witness ==
    \E b \in DOMAIN broadcasts :
        /\ broadcasts[b].outcome = "rejected"
        /\ \E c \in DOMAIN broadcasts[b].results :
              broadcasts[b].results[c] = "pending"

\* C10: the members of a room are exactly the channels whose last successful
\* store command for that room was an enter, and that is what a members
\* lookup returns; a successful enter or leave of (room, channel) makes the
\* channel a member or a non-member and changes nothing else.
C10_MembersAreLastEntered ==
    [][ LET o == lastOp'
        IN  /\ \A r \in Rooms : MembersIn(store', r) = {c \in Channels : <<r, c>> \in lastDone'}
            /\ o.op = "reply" /\ o.ok /\ o.command.cmd = "smembers" =>
                  /\ Range(o.members) = {c \in Channels : <<o.command.room, c>> \in lastDone}
                  /\ Len(o.members) = Cardinality(Range(o.members))
                  /\ store' = store
            /\ o.op = "reply" /\ o.ok /\ o.command.cmd \in {"sadd", "srem"} =>
                  /\ o.command.arg \in MembersIn(store', o.command.room)
                        <=> o.command.cmd = "sadd"
                  /\ \A r \in Rooms, c \in Channels :
                        <<r, c>> # <<o.command.room, o.command.arg>> =>
                            (c \in MembersIn(store', r) <=> c \in MembersOf(r))
            /\ o.op = "reply" /\ ~o.ok => store' = store
      ]_vars

\* C10 witness: after a channel entered a room and left it again, a members
\* lookup of the room returned only the other member, while the other room
\* has members of its own.
C10_Witness ==
    /\ lastOp.op = "reply" /\ lastOp.ok /\ lastOp.command.cmd = "smembers"
    /\ Len(lastOp.members) = 1
    /\ \E r \in Rooms : r # lastOp.command.room /\ Cardinality(MembersOf(r)) = 2

\* C11: when close(room) has succeeded the room has no members, whatever it
\* had before, and no key: the keyspace is what it would be had the room never
\* been entered; the other rooms keep their members; a close of a room
\* without members is answered like any other.
C11_CloseEmptiesTheRoomOnly ==
    [][ LET o == lastOp'
        IN  o.op = "reply" /\ o.ok /\ o.command.cmd = "del" =>
              /\ MembersIn(store', o.command.room) = {}
              /\ subscribersKey(o.command.room) \notin DOMAIN store'
              /\ store' = Del(store, subscribersKey(o.command.room))
              /\ \A r \in Rooms \ {o.command.room} :
                    MembersIn(store', r) = MembersOf(r)
              /\ \A c \in Channels : <<o.command.room, c>> \notin lastDone'
      ]_vars

\* C11 witness: a close succeeded and its room has no members, while the
\* other room keeps its two members.
C11_Witness ==
    /\ lastOp.op = "reply" /\ lastOp.ok /\ lastOp.command.cmd = "del"
    /\ MembersOf(lastOp.command.room) = {}
    /\ \E r \in Rooms : r # lastOp.command.room /\ Cardinality(MembersOf(r)) = 2

\* =================================================================
\* Properties of publish and of the registry and the rooms together
\* =================================================================
\* C12: publish sends the message to the broker whether or not the channel
\* has a registry entry; what becomes of it is the broker's answer alone
\* (delivered to the subscribed connection iff the answer is a success);
\* neither the call nor the answer changes subscribers or nextId.
C12_PublishForwardsAndLeavesRegistry ==
    [][ LET o == lastOp'
        IN  /\ o.op = "publish" =>
                  /\ o.command.cmd = "publish" /\ o.command.bid = 0
                  /\ pubConn' = Append(pubConn, o.command)
                  /\ UNCHANGED <<subscribers, nextId, handles, subConn, inbound>>
            /\ o.op = "reply" /\ o.command.cmd = "publish" =>
                  /\ o.command = Head(pubConn)
                  /\ pubConn' = Tail(pubConn)
                  /\ UNCHANGED <<subscribers, nextId, handles, subConn>>
                  /\ inbound' = IF o.ok /\ subConn[o.command.arg] = "subscribe"
                                THEN Append(inbound, [channel |-> o.command.arg,
                                                      message |-> o.command.message])
                                ELSE inbound
      ]_vars

\* C12 witness: the broker accepted a publish to a channel that has no
\* registry entry while another channel has one.
C12_Witness ==
    /\ lastOp.op = "reply" /\ lastOp.ok /\ lastOp.command.cmd = "publish"
    /\ lastOp.command.arg \notin DOMAIN subscribers
    /\ DOMAIN subscribers # {}

\* C13: every subscribe takes the counter's value as its listener id and
\* advances the counter, so ids grow with every subscribe on any channel; no
\* other step touches the counter; no two listeners, registered or removed,
\* share an id, also when a channel entry was removed and created again.
C13_ListenerIdsAreNeverReused ==
    [][ LET o == lastOp'
        IN  /\ o.op = "subscribe" =>
                  /\ o.id = nextId
                  /\ nextId' > nextId
                  /\ \A h \in handles : h.id < o.id
                  /\ handles' = handles \cup {[channel |-> o.channel, id |-> o.id]}
                  /\ o.id \in DOMAIN subscribers'[o.channel]
            /\ o.op # "subscribe" => nextId' = nextId /\ handles' = handles
            /\ \A h1, h2 \in handles' : h1.id = h2.id => h1 = h2
            /\ \A h \in handles' : h.id < nextId'
            /\ \A c \in DOMAIN subscribers' : \A id \in DOMAIN subscribers'[c] :
                  [channel |-> c, id |-> id] \in handles'
      ]_vars

\* C13 witness: a subscribe created a channel entry anew after an earlier
\* listener of that channel, and took an id above it.
C13_Witness ==
    /\ lastOp.op = "subscribe" /\ lastOp.cmds # <<>>
    /\ \E h \in handles : h.channel = lastOp.channel /\ h.id < lastOp.id

\* broadcast b did not get its message for channel c to the broker
BroadcastFailedFor(b, c) ==
    /\ b \in DOMAIN broadcasts
    /\ \/ broadcasts[b].lookup = "rejected"
       \/ c \in DOMAIN broadcasts[b].results /\ broadcasts[b].results[c] = "rejected"

\* listener id of channel c was invoked with the message of broadcast b
InvokedWithBroadcast(b, c, id) ==
    /\ b \in DOMAIN broadcasts
    /\ lastOp.op = "message" /\ lastOp.channel = c
    /\ Invocations(lastOp.calls, id, broadcasts[b].message) >= 1

\* C14: when broadcast b is called for a room that channel c has entered and
\* listener id is subscribed to c, then, unless the lookup or the publish to
\* c fails, listener id is eventually invoked with b's message.
C14_BroadcastReachesSubscribedMember ==
    \A b \in 1..MaxBroadcasts, c \in Channels, id \in 0..(MaxId - 1) :
        ( /\ Len(broadcasts) = b /\ lastOp.op = "broadcast"
          /\ id \in Listeners(c)
          /\ <<broadcasts[b].room, c>> \in lastDone )
        ~> (InvokedWithBroadcast(b, c, id) \/ BroadcastFailedFor(b, c))

\* listener k of channel c was registered when another listener of c, one
\* subscribed after it, was unsubscribed
Remained(c, k) ==
    /\ k \in Listeners(c)
    /\ \E h \in handles : h.channel = c /\ h.id \notin Listeners(c) /\ k < h.id

\* C15: unsubscribing one of two or more listeners of a channel keeps the
\* channel's entry and sends the broker nothing, and every listener that
\* remained is invoked for each message delivered on the channel afterwards.
C15_RemainingListenersStillInvoked ==
    [][ LET o == lastOp'
        IN  /\ ( /\ o.op = "unsubscribe" /\ o.removed
                 /\ Cardinality(Listeners(o.channel)) >= 2 ) =>
                    /\ o.channel \in DOMAIN subscribers'
                    /\ DOMAIN subscribers'[o.channel] = Listeners(o.channel) \ {o.id}
                    /\ o.cmds = <<>>
                    /\ subConn' = subConn
            /\ o.op = "message" =>
                    \A k \in Listeners(o.channel) :
                        Remained(o.channel, k) =>
                            Invocations(o.calls, k, o.message) >= 1
      ]_vars

\* the handle h was invoked by the last step
HandleInvoked(h) ==
    lastOp.op = "unsubscribe" /\ lastOp.channel = h.channel /\ lastOp.id = h.id

\* the last step invoked the callback of the listener of handle h
CallbackInvoked(h) ==
    /\ lastOp.op = "message" /\ lastOp.channel = h.channel
    /\ \E i \in DOMAIN lastOp.calls : lastOp.calls[i].id = h.id

\* C16: from the invocation of a listener's handle on, no delivered message
\* invokes that listener's callback, whether published before or after; and
\* the handle of a channel's sole listener removes the channel's key.
C16_UnsubscribedListenerNeverInvoked ==
    /\ \A h \in [channel : Channels, id : 0..(MaxId - 1)] :
          [](HandleInvoked(h) => []~CallbackInvoked(h))
    /\ [][ LET o == lastOp'
           IN  o.op = "unsubscribe" =>
                 /\ o.id \notin DOMAIN
                       (IF o.channel \in DOMAIN subscribers'
                        THEN subscribers'[o.channel] ELSE EmptyObj)
                 /\ Listeners(o.channel) = {o.id} =>
                       o.channel \notin DOMAIN subscribers'
         ]_vars

\* C16 witness: a message published while the channel had its sole listener
\* was delivered after that listener's handle was invoked, and nothing was
\* called.
C16_Witness ==
    /\ lastOp.op = "message" /\ lastOp.calls = <<>> /\ ~lastOp.threw
    /\ lastOp.channel \notin DOMAIN subscribers
    /\ \E h \in handles : h.channel = lastOp.channel

\* the step is redis' failing answer to the members lookup of a broadcast
IsFailedLookupReply(o) ==
    o.op = "reply" /\ o.command.cmd = "smembers" /\ o.command.bid > 0 /\ ~o.ok

\* C17: a broadcast whose lookup finds the room without members sends no
\* publish and is fulfilled at once; it stays fulfilled and no publish is
\* ever queued for it.
C17_EmptyRoomBroadcastSucceeds ==
    [][ LET o == lastOp'
        IN  /\ IsLookupReply(o) /\ MembersOf(o.command.room) = {} =>
                  /\ o.members = <<>>
                  /\ o.sent = <<>>
                  /\ pubConn' = Tail(pubConn)
                  /\ inbound' = inbound
                  /\ broadcasts'[o.command.bid].outcome = "fulfilled"
            /\ \A b \in DOMAIN broadcasts :
                  broadcasts[b].lookup = "fulfilled" /\ broadcasts[b].members = <<>> =>
                      /\ broadcasts'[b] = broadcasts[b]
                      /\ broadcasts[b].outcome = "fulfilled"
                      /\ \A c \in Channels : QueuedPublishes(pubConn', b, c) = {}
      ]_vars

\* C17 witness: a broadcast to a room with no set in the store was fulfilled
\* with no publish sent, while another room has members.
C17_Witness ==
    /\ IsLookupReply(lastOp) /\ lastOp.sent = <<>>
    /\ subscribersKey(lastOp.command.room) \notin DOMAIN store
    /\ DOMAIN store # {}
    /\ broadcasts[lastOp.command.bid].outcome = "fulfilled"

\* C18: when the members lookup of a broadcast fails, the broadcast is
\* rejected and no publish is sent for it, then or later.
C18_FailedLookupFailsBroadcast ==
    [][ LET o == lastOp'
        IN  /\ IsFailedLookupReply(o) =>
                  /\ o.sent = <<>>
                  /\ pubConn' = Tail(pubConn)
                  /\ inbound' = inbound
                  /\ broadcasts'[o.command.bid].lookup = "rejected"
            /\ \A b \in DOMAIN broadcasts' :
                  broadcasts'[b].lookup = "rejected" =>
                      /\ broadcasts'[b].outcome = "rejected"
                      /\ DOMAIN broadcasts'[b].results = {}
                      /\ \A c \in Channels : QueuedPublishes(pubConn', b, c) = {}
      ]_vars

\* C18 witness: the lookup failed for a room that has members, and the
\* broadcast is rejected.
C18_Witness ==
    /\ IsFailedLookupReply(lastOp)
    /\ MembersOf(lastOp.command.room) # {}
    /\ broadcasts[lastOp.command.bid].outcome = "rejected"

\* the step is redis' successful answer to a publish of a broadcast
IsBroadcastPublishReply(o) ==
    o.op = "reply" /\ o.command.cmd = "publish" /\ o.command.bid > 0 /\ o.ok

UnsubscribedWhileDispatching(c, calls) ==
    /\ c \in DOMAIN subscribers
    /\ \E i \in DOMAIN calls :
          LET fn == subscribers[c][calls[i].id]
          IN  fn.does = "unsubscribes" /\ fn.id \in Listeners(c)

\* C20: a dispatch during which a listener invokes the unsubscribe handle of
\* itself or of another listener of the channel ends without an error (a
\* removed slot that is called raises one), having invoked no listener twice
\* and only listeners that were registered.
C20_UnsubscribeDuringDispatchIsSafe ==
    [][ LET o == lastOp'
        IN  o.op = "message" /\ UnsubscribedWhileDispatching(o.channel, o.calls) =>
              /\ ~o.threw
              /\ \A id \in 0..(MaxId - 1) : Invocations(o.calls, id, o.message) <= 1
              /\ \A i \in DOMAIN o.calls : o.calls[i].id \in Listeners(o.channel)
      ]_vars

====
